---- MODULE Spec2Model ----
(***************************************************************************)
(* PrimeCell API: the deterministic decision engine.                       *)
(*                                                                         *)
(* Units.  Weights are tenths of a kilogram (80.0 kg = 800), calories and  *)
(* grams are integers, estimated weekly changes are hundredths of a        *)
(* kilogram per week (-0.45 kg/week = -45), timestamps are days.  A rate   *)
(* in kg/week computed from two check-ins `days` apart is carried as an    *)
(* integer numerator over the denominator unit = 100 * days, which keeps   *)
(* every comparison of the source exact.                                   *)
(***************************************************************************)
EXTENDS Integers, Sequences, FiniteSets, TLC

\* ------------------------------------------------------------------------
\* Bounds of the model
\* ------------------------------------------------------------------------
MaxCheckins == 3
MaxOnboardings == 2
MaxTdee == 4000
MaxHistory == 5

Procs == {1, 2}

Null == [null |-> TRUE]

Abs(x) == IF x < 0 THEN -x ELSE x
Min(a, b) == IF a < b THEN a ELSE b
Max(a, b) == IF a > b THEN a ELSE b

\* Math.round(n / d) for d > 0: the nearest integer, halves toward +infinity.
Round(n, d) == (2 * n + d) \div (2 * d)

\* Math.floor(n / d) and Math.ceil(n / d) for d > 0.
Floor(n, d) == n \div d
Ceil(n, d) == -((-n) \div d)

\* parseFloat((n / d).toFixed(2)) in hundredths: the sign is split off and
\* the magnitude is rounded to the nearest hundredth, halves upward.
ToFixed2(n, d) == IF n < 0 THEN -Round(100 * (-n), d) ELSE Round(100 * n, d)

\* Math.sign
Sign(x) == IF x > 0 THEN 1 ELSE IF x < 0 THEN -1 ELSE 0

Goals == {"weight_loss", "maintenance", "muscle_gain"}

\* ------------------------------------------------------------------------
\* TDEE calculator
\* ------------------------------------------------------------------------
ACTIVITY_MULTIPLIERS ==
  [sedentary |-> 1200, light |-> 1375, moderate |-> 1550,
   active |-> 1725, very_active |-> 1900]

\* 10 * weight + 6.25 * height - 5 * age + (male ? 5 : -161), in quarters.
calculateBMR(weight, height, age, gender) ==
  Round(4 * weight + 25 * height - 20 * age
          + 4 * (IF gender = "male" THEN 5 ELSE -161), 4)

calculateTDEE(weight, height, age, gender, activityLevel) ==
  LET bmr == calculateBMR(weight, height, age, gender)
  IN  [bmr |-> bmr,
       tdee |-> Round(bmr * ACTIVITY_MULTIPLIERS[activityLevel], 1000)]

\* ------------------------------------------------------------------------
\* Energy balance calculator
\* ------------------------------------------------------------------------
\* percentages in hundredths
ENERGY_ADJUSTMENTS ==
  [weight_loss |-> [min |-> -25, max |-> -20],
   maintenance |-> [min |-> 0, max |-> 0],
   muscle_gain |-> [min |-> 8, max |-> 12]]

MAX_DEFICIT == 500
MAX_SURPLUS == 300

calculateTargetCaloriesUncapped(tdee, goal) ==
  LET adjustment == ENERGY_ADJUSTMENTS[goal]
      deficitPercentage ==
        IF goal = "weight_loss" THEN adjustment.max
        ELSE IF goal = "muscle_gain" THEN adjustment.min
        ELSE 0
      deficit == Round(tdee * deficitPercentage, 100)
  IN  [targetCalories |-> tdee + deficit,
       deficit |-> deficit,
       deficitPercentage |-> deficitPercentage,
       weeklyWeightChangeKg |-> ToFixed2(deficit * 7, 7700)]

calculateTargetCalories(tdee, goal) ==
  LET adjustment == ENERGY_ADJUSTMENTS[goal]
      deficitPercentage ==
        IF goal = "weight_loss" THEN adjustment.max
        ELSE IF goal = "muscle_gain" THEN adjustment.min
        ELSE 0
      raw == Round(tdee * deficitPercentage, 100)
      deficit ==
        IF goal = "weight_loss" THEN Max(raw, -MAX_DEFICIT)
        ELSE IF goal = "muscle_gain" THEN Min(raw, MAX_SURPLUS)
        ELSE raw
  IN  [targetCalories |-> tdee + deficit,
       deficit |-> deficit,
       deficitPercentage |-> deficitPercentage,
       weeklyWeightChangeKg |-> ToFixed2(deficit * 7, 7700)]

\* ------------------------------------------------------------------------
\* Macro calculator (ratios in tenths of a gram per kg; weight in tenths of
\* a kg, hence the division by 100)
\* ------------------------------------------------------------------------
PROTEIN_RATIOS ==
  [weight_loss |-> [min |-> 20, max |-> 24],
   maintenance |-> [min |-> 18, max |-> 22],
   muscle_gain |-> [min |-> 16, max |-> 22]]

FAT_RATIOS ==
  [weight_loss |-> [min |-> 8, max |-> 10],
   maintenance |-> [min |-> 8, max |-> 12],
   muscle_gain |-> [min |-> 8, max |-> 10]]

\* targetRatio is max for weight_loss, (min + max) / 2 otherwise; the halving
\* is folded into the denominator.
calculateProtein(weight, goal) ==
  LET ratio == PROTEIN_RATIOS[goal]
  IN  IF goal = "weight_loss"
      THEN Round(weight * ratio.max, 100)
      ELSE Round(weight * (ratio.min + ratio.max), 200)

calculateFat(weight, goal) ==
  LET ratio == FAT_RATIOS[goal]
  IN  Round(weight * (ratio.min + ratio.max), 200)

calculateCarbs(targetCalories, proteinGrams, fatGrams) ==
  LET remainingCalories == targetCalories - proteinGrams * 4 - fatGrams * 9
  IN  Max(0, Round(remainingCalories, 4))

calculateMacros(weight, targetCalories, goal) ==
  LET protein == calculateProtein(weight, goal)
      fat == calculateFat(weight, goal)
      carbs == calculateCarbs(targetCalories, protein, fat)
  IN  [protein |-> protein, fat |-> fat, carbs |-> carbs,
       proteinCalories |-> protein * 4,
       fatCalories |-> fat * 9,
       carbsCalories |-> carbs * 4]

\* difference <= targetCalories * 0.05
validateMacros(result, targetCalories) ==
  LET totalCalories ==
        result.proteinCalories + result.fatCalories + result.carbsCalories
  IN  Abs(totalCalories - targetCalories) * 100 <= targetCalories * 5

\* ------------------------------------------------------------------------
\* Adjustment validator: progress analysis.
\* A rate of `x / unit` kg/week is passed as the integer x; unit is a
\* multiple of 100, so 0.2 and 0.3 kg/week are unit / 5 and 3 * unit / 10.
\* ------------------------------------------------------------------------
Patterns == {"too_fast", "too_slow", "stalled", "on_track", "reversed"}

Recommendation(shouldAdjust, change, pattern) ==
  [shouldAdjust |-> shouldAdjust,
   recommendedCalorieChange |-> change,
   pattern |-> pattern]

CalorieStepPerGram(actualChange, expectedChange, unit) ==
  Round(Min(2000 * unit, Abs(actualChange - expectedChange) * 11), 10 * unit)

\* Math.round(Math.min(200, Math.abs((actual - expected) * 1100)))
CalorieStep(actualChange, expectedChange, unit) ==
  Round(Min(200 * unit, Abs(actualChange - expectedChange) * 1100), unit)

analyzeWeightLossProgress(actualChange, expectedChange, unit) ==
  IF actualChange < expectedChange - (3 * unit) \div 10
  THEN Recommendation(TRUE, CalorieStep(actualChange, expectedChange, unit),
                      "too_fast")
  ELSE IF actualChange > expectedChange + (3 * unit) \div 10
  THEN Recommendation(TRUE, -CalorieStep(actualChange, expectedChange, unit),
                      "too_slow")
  ELSE IF actualChange >= 0
  THEN Recommendation(TRUE, -150, "reversed")
  ELSE Recommendation(FALSE, 0, "on_track")

analyzeMuscleGainProgress(actualChange, expectedChange, unit) ==
  IF actualChange > expectedChange + (3 * unit) \div 10
  THEN Recommendation(TRUE, -100, "too_fast")
  ELSE IF actualChange < expectedChange - unit \div 5
  THEN Recommendation(TRUE, 150, "too_slow")
  ELSE IF actualChange <= -(unit \div 5)
  THEN Recommendation(TRUE, 200, "reversed")
  ELSE Recommendation(FALSE, 0, "on_track")

analyzeMaintenanceProgress(actualChange, unit) ==
  LET tolerance == (3 * unit) \div 10
  IN  IF Abs(actualChange) <= tolerance
      THEN Recommendation(FALSE, 0, "on_track")
      ELSE IF actualChange < -tolerance
      THEN Recommendation(TRUE, 100, "too_fast")
      ELSE Recommendation(TRUE, -100, "too_slow")

\* weeksSinceLastCheckin = days / 7; expectedWeeklyChange in hundredths.
\* weeklyChange = (current - previous) / 10 / (days / 7)
\*              = 70 * (current - previous) / (100 * days).
WeeklyUnit(days) == 100 * days
WeeklyChange(currentWeight, previousWeight) ==
  70 * (currentWeight - previousWeight)
ExpectedChange(expectedWeeklyChange, days) == expectedWeeklyChange * days

analyzeProgressStrict(currentWeight, previousWeight, days, goal, expectedWeeklyChange) ==
  LET unit == WeeklyUnit(days)
      weeklyChange == WeeklyChange(currentWeight, previousWeight)
      expected == ExpectedChange(expectedWeeklyChange, days)
      tolerance == unit \div 5
      difference == Abs(weeklyChange - expected)
  IN  IF difference < tolerance
      THEN Recommendation(FALSE, 0, "on_track")
      ELSE IF goal = "weight_loss"
      THEN analyzeWeightLossProgress(weeklyChange, expected, unit)
      ELSE IF goal = "muscle_gain"
      THEN analyzeMuscleGainProgress(weeklyChange, expected, unit)
      ELSE analyzeMaintenanceProgress(weeklyChange, unit)

analyzeProgress(currentWeight, previousWeight, days, goal, expectedWeeklyChange) ==
  LET unit == WeeklyUnit(days)
      weeklyChange == WeeklyChange(currentWeight, previousWeight)
      expected == ExpectedChange(expectedWeeklyChange, days)
      tolerance == unit \div 5
      difference == Abs(weeklyChange - expected)
  IN  IF difference <= tolerance
      THEN Recommendation(FALSE, 0, "on_track")
      ELSE IF goal = "weight_loss"
      THEN analyzeWeightLossProgress(weeklyChange, expected, unit)
      ELSE IF goal = "muscle_gain"
      THEN analyzeMuscleGainProgress(weeklyChange, expected, unit)
      ELSE analyzeMaintenanceProgress(weeklyChange, unit)

SeqMax(s) == CHOOSE x \in {s[i] : i \in DOMAIN s} :
               \A y \in {s[i] : i \in DOMAIN s} : y <= x
SeqMin(s) == CHOOSE x \in {s[i] : i \in DOMAIN s} :
               \A y \in {s[i] : i \in DOMAIN s} : x <= y

detectStallInclusive(recentWeights, threshold) ==
  IF Len(recentWeights) < threshold
  THEN FALSE
  ELSE SeqMax(recentWeights) - SeqMin(recentWeights) <= 3

\* range < 0.3 kg, in tenths of a kg
detectStall(recentWeights, threshold) ==
  IF Len(recentWeights) < threshold
  THEN FALSE
  ELSE SeqMax(recentWeights) - SeqMin(recentWeights) < 3

\* ------------------------------------------------------------------------
\* Safety validator
\* ------------------------------------------------------------------------
MIN_CALORIES == [male |-> 1500, female |-> 1200]

MAX_ADJUSTMENTS == [deficit |-> 500, surplus |-> 300]

If(c, s) == IF c THEN s ELSE << >>

ValidationResult(violations, warnings) ==
  [isValid |-> Len(violations) = 0,
   violations |-> violations,
   warnings |-> warnings]

validateNutritionPlanNoCaps(calories, protein, weight, gender, tdee, goal) ==
  ValidationResult(
      If(calories < MIN_CALORIES[gender], <<"min_calories">>)
      \o If(protein * 100 < weight * 16, <<"min_protein">>),
      If(protein * 10 > weight * 3, <<"high_protein">>))

validateNutritionPlanShortCircuit(calories, protein, weight, gender, tdee, goal) ==
  IF calories < MIN_CALORIES[gender]
  THEN ValidationResult(<<"min_calories">>, << >>)
  ELSE IF goal = "weight_loss" /\ tdee - calories > MAX_ADJUSTMENTS.deficit
  THEN ValidationResult(<<"max_deficit">>, << >>)
  ELSE IF goal = "muscle_gain" /\ calories - tdee > MAX_ADJUSTMENTS.surplus
  THEN ValidationResult(<<"max_surplus">>, << >>)
  ELSE IF protein * 100 < weight * 16
  THEN ValidationResult(<<"min_protein">>, << >>)
  ELSE ValidationResult(
         If(goal = "weight_loss"
              /\ (tdee - calories) * 7 * 1000 > weight * 7700,
            <<"weekly_loss">>),
         If(protein * 10 > weight * 3, <<"high_protein">>))

validateNutritionPlan(calories, protein, weight, gender, tdee, goal) ==
  ValidationResult(
      If(calories < MIN_CALORIES[gender], <<"min_calories">>)
      \o If(goal = "weight_loss" /\ tdee - calories > MAX_ADJUSTMENTS.deficit,
            <<"max_deficit">>)
      \o If(goal = "muscle_gain" /\ calories - tdee > MAX_ADJUSTMENTS.surplus,
            <<"max_surplus">>)
      \o If(protein * 100 < weight * 16, <<"min_protein">>)
      \o If(goal = "weight_loss"
              /\ (tdee - calories) * 7 * 1000 > weight * 7700,
            <<"weekly_loss">>),
      If(protein * 10 > weight * 3, <<"high_protein">>))

validateAdjustment(currentCalories, newCalories, gender) ==
  LET adjustment == newCalories - currentCalories
  IN  ValidationResult(
          If(Abs(adjustment) > 200, <<"adjustment_size">>)
          \o If(newCalories < MIN_CALORIES[gender], <<"min_calories">>),
          If(Abs(adjustment) >= 150 /\ Abs(adjustment) <= 200,
             <<"large_adjustment">>))

\* ------------------------------------------------------------------------
\* Nutrition plan generator engine
\* ------------------------------------------------------------------------
generateNutritionPlan(input) ==
  LET tdeeResult == calculateTDEE(input.weight, input.height, input.age,
                                  input.gender, input.activityLevel)
      energyResult == calculateTargetCalories(tdeeResult.tdee, input.goal)
      macroResult == calculateMacros(input.weight, energyResult.targetCalories,
                                     input.goal)
      validation == validateNutritionPlan(energyResult.targetCalories,
                                          macroResult.protein, input.weight,
                                          input.gender, tdeeResult.tdee,
                                          input.goal)
  IN  [bmr |-> tdeeResult.bmr,
       tdee |-> tdeeResult.tdee,
       targetCalories |-> energyResult.targetCalories,
       protein |-> macroResult.protein,
       fat |-> macroResult.fat,
       carbs |-> macroResult.carbs,
       deficit |-> energyResult.deficit,
       estimatedWeeklyWeightChange |-> energyResult.weeklyWeightChangeKg,
       validation |-> validation]

adjustNutritionPlanFromTdee(currentPlan, calorieAdjustment, weight, gender, goal) ==
  LET newTargetCalories == currentPlan.tdee + calorieAdjustment
      macroResult == calculateMacros(weight, newTargetCalories, goal)
      validation == validateNutritionPlan(newTargetCalories,
                                          macroResult.protein, weight, gender,
                                          currentPlan.tdee, goal)
      newDeficit == currentPlan.tdee - newTargetCalories
  IN  [bmr |-> currentPlan.bmr,
       tdee |-> currentPlan.tdee,
       targetCalories |-> newTargetCalories,
       protein |-> macroResult.protein,
       fat |-> macroResult.fat,
       carbs |-> macroResult.carbs,
       deficit |-> newDeficit,
       estimatedWeeklyWeightChange |-> ToFixed2(newDeficit * 7, 7700),
       validation |-> validation]

adjustNutritionPlan(currentPlan, calorieAdjustment, weight, gender, goal) ==
  LET newTargetCalories == currentPlan.targetCalories + calorieAdjustment
      macroResult == calculateMacros(weight, newTargetCalories, goal)
      validation == validateNutritionPlan(newTargetCalories,
                                          macroResult.protein, weight, gender,
                                          currentPlan.tdee, goal)
      newDeficit == currentPlan.tdee - newTargetCalories
  IN  [bmr |-> currentPlan.bmr,
       tdee |-> currentPlan.tdee,
       targetCalories |-> newTargetCalories,
       protein |-> macroResult.protein,
       fat |-> macroResult.fat,
       carbs |-> macroResult.carbs,
       deficit |-> newDeficit,
       estimatedWeeklyWeightChange |-> ToFixed2(newDeficit * 7, 7700),
       validation |-> validation]

\* ------------------------------------------------------------------------
\* Adjustment engine
\* ------------------------------------------------------------------------
\* recentCheckIns.sort((a, b) => b.createdAt - a.createdAt)
RECURSIVE SortDesc(_)
SortDesc(s) ==
  IF Len(s) <= 1
  THEN s
  ELSE LET i == CHOOSE k \in DOMAIN s :
                  \A j \in DOMAIN s : s[j].createdAt <= s[k].createdAt
           rest == [j \in 1..(Len(s) - 1) |-> IF j < i THEN s[j] ELSE s[j + 1]]
       IN  <<s[i]>> \o SortDesc(rest)

\* sorted.slice(0, 4).map(c => c.weight)
RecentWeights(sorted) ==
  [i \in 1..Min(4, Len(sorted)) |-> sorted[i].weight]

\* current.energyLevel && current.energyLevel <= 2, and the like
CheckInWarnings(current, isStalled) ==
  If(isStalled, <<"stalled">>)
  \o If(current.energyLevel # 0 /\ current.energyLevel <= 2, <<"low_energy">>)
  \o If(current.hungerLevel # 0 /\ current.hungerLevel >= 4, <<"high_hunger">>)
  \o If(current.stressLevel # 0 /\ current.stressLevel >= 4, <<"high_stress">>)

analyzeCheckInProgressNoClamp(recentCheckIns, expectedWeeklyChange, goal, currentCalories, gender) ==
  LET sorted == SortDesc(recentCheckIns)
      current == sorted[1]
      previous == sorted[2]
      days == current.createdAt - previous.createdAt
      weightChange == current.weight - previous.weight
      recommendation == analyzeProgress(current.weight, previous.weight, days,
                                        goal, expectedWeeklyChange)
      isStalled == detectStall(RecentWeights(sorted), 3)
      change == recommendation.recommendedCalorieChange
      finalAdjustment == change
      trainingAdjustment ==
        IF isStalled /\ goal = "muscle_gain" THEN "increase"
        ELSE IF recommendation.pattern = "too_fast" /\ goal = "weight_loss"
        THEN "decrease"
        ELSE "maintain"
  IN  [currentWeight |-> current.weight,
       previousWeight |-> previous.weight,
       weightChange |-> weightChange,
       days |-> days,
       pattern |-> recommendation.pattern,
       isStalled |-> isStalled,
       shouldAdjustNutrition |-> recommendation.shouldAdjust \/ isStalled,
       shouldAdjustTraining |-> trainingAdjustment # "maintain",
       nutritionAdjustment |-> finalAdjustment,
       trainingAdjustment |-> trainingAdjustment,
       warnings |-> CheckInWarnings(current, isStalled)]

\* Precondition of the source: Len(recentCheckIns) >= 2 (it throws otherwise).
analyzeCheckInProgress(recentCheckIns, expectedWeeklyChange, goal, currentCalories, gender) ==
  LET sorted == SortDesc(recentCheckIns)
      current == sorted[1]
      previous == sorted[2]
      days == current.createdAt - previous.createdAt
      weightChange == current.weight - previous.weight
      recommendation == analyzeProgress(current.weight, previous.weight, days,
                                        goal, expectedWeeklyChange)
      isStalled == detectStall(RecentWeights(sorted), 3)
      change == recommendation.recommendedCalorieChange
      finalAdjustment ==
        IF recommendation.shouldAdjust
           /\ ~validateAdjustment(currentCalories, currentCalories + change,
                                  gender).isValid
        THEN Sign(change) * 100
        ELSE change
      trainingAdjustment ==
        IF isStalled /\ goal = "muscle_gain" THEN "increase"
        ELSE IF recommendation.pattern = "too_fast" /\ goal = "weight_loss"
        THEN "decrease"
        ELSE "maintain"
  IN  [currentWeight |-> current.weight,
       previousWeight |-> previous.weight,
       weightChange |-> weightChange,
       days |-> days,
       pattern |-> recommendation.pattern,
       isStalled |-> isStalled,
       shouldAdjustNutrition |-> recommendation.shouldAdjust \/ isStalled,
       shouldAdjustTraining |-> trainingAdjustment # "maintain",
       nutritionAdjustment |-> finalAdjustment,
       trainingAdjustment |-> trainingAdjustment,
       warnings |-> CheckInWarnings(current, isStalled)]

\* ------------------------------------------------------------------------
\* Engine service: helpers of processOnboarding and processCheckin
\* ------------------------------------------------------------------------
\* primaryGoal.includes('lose') || ... ; 'gain_muscle' || 'muscle_gain'
LoseGoals == {"lose_fat", "lose_weight"}
GainGoals == {"gain_muscle", "muscle_gain"}

RuleEngineGoal(primaryGoal) ==
  IF primaryGoal \in LoseGoals THEN "weight_loss"
  ELSE IF primaryGoal \in GainGoals THEN "muscle_gain"
  ELSE "maintenance"

\* sex === 'M' ? 'male' : 'female'
RuleEngineGender(sex) == IF sex = "M" THEN "male" ELSE "female"

NutritionMode(goal) ==
  IF goal = "weight_loss" THEN "deficit"
  ELSE IF goal = "muscle_gain" THEN "surplus"
  ELSE "maintenance"

\* The nutrition plan generated for an onboarding record.
OnboardingPlanResult(data) ==
  generateNutritionPlan(
    [weight |-> data.weight, height |-> data.height, age |-> data.age,
     gender |-> RuleEngineGender(data.sex),
     activityLevel |-> data.activityLevel,
     goal |-> RuleEngineGoal(data.primaryGoal)])

\* prisma.nutritionPlan.create: the table keeps every row it is given.  The
\* table's schema is not among the sources; the orchestrator looks plans up
\* with findFirst({userId, version}) and handles no conflict on create, so
\* the store is taken to accept any (userId, version).
nutritionPlanCreate(plans, row) == Append(plans, row)

\* The row written by prisma.nutritionPlan.create
PlanRow(id, version, mode, plan) ==
  [id |-> id,
   version |-> version,
   mode |-> mode,
   caloriesMin |-> Floor(plan.targetCalories * 9, 10),
   caloriesMax |-> Ceil(plan.targetCalories * 11, 10),
   caloriesTarget |-> plan.targetCalories,
   proteinGrams |-> plan.protein,
   carbsGrams |-> plan.carbs,
   fatGrams |-> plan.fat,
   guidelines |-> [tdee |-> plan.tdee, bmr |-> plan.bmr,
                   deficit |-> plan.deficit,
                   estimatedWeeklyChange |-> plan.estimatedWeeklyWeightChange]]

\* currentPlanForAdjustment
CurrentPlanForAdjustment(row) ==
  [bmr |-> row.guidelines.bmr,
   tdee |-> row.guidelines.tdee,
   targetCalories |-> row.caloriesTarget,
   protein |-> row.proteinGrams,
   fat |-> row.fatGrams,
   carbs |-> row.carbsGrams,
   deficit |-> row.guidelines.deficit,
   estimatedWeeklyWeightChange |-> row.guidelines.estimatedWeeklyChange]

\* ------------------------------------------------------------------------
\* Inputs
\* ------------------------------------------------------------------------
\* Onboarding submissions.  The first is the scenario of the test suite
\* (BMR 1780, TDEE 2759); sex arrives as 'M'/'F' (the engine's encoding) or
\* as 'male'/'female' (the shared schema's and the integration script's).
Profiles ==
  { [sex |-> "M", age |-> 30, height |-> 180, weight |-> 800,
     primaryGoal |-> "lose_fat", activityLevel |-> "moderate"],
    [sex |-> "F", age |-> 25, height |-> 160, weight |-> 500,
     primaryGoal |-> "lose_weight", activityLevel |-> "sedentary"],
    [sex |-> "male", age |-> 60, height |-> 160, weight |-> 500,
     primaryGoal |-> "gain_muscle", activityLevel |-> "sedentary"],
    [sex |-> "F", age |-> 30, height |-> 165, weight |-> 650,
     primaryGoal |-> "lose_weight", activityLevel |-> "sedentary"] }

CheckinWeights == {792, 800}
CheckinEnergies == {5}
CheckinHungers == {3}
CheckinStresses == {3}
CheckinGaps == {7}

CheckinDtos ==
  [weight : CheckinWeights, energy : CheckinEnergies,
   hunger : CheckinHungers, stress : CheckinStresses]

\* ------------------------------------------------------------------------
\* State
\* ------------------------------------------------------------------------
VARIABLES
  onboardingData,      \* the user's OnboardingData row, or Null
  onboardingComplete,  \* User.onboardingComplete
  nutritionPlans,      \* NutritionPlan rows of the user, in creation order
  planOrigin,          \* per plan row: what created it and from what
  activePlanPointer,   \* the user's ActivePlanPointer row, or Null
  weeklyCheckins,      \* WeeklyCheckin rows of the user, in creation order
  decisionRecords,     \* DecisionRecord rows of the user, in creation order
  pc,                  \* position of each submitCheckin execution
  local,               \* local variables of each submitCheckin execution
  ob,                  \* the submitOnboarding execution
  completed,           \* how many onboarding / check-in requests returned
  calc                 \* last call of a pure calculator: function, input, output

vars == <<onboardingData, onboardingComplete, nutritionPlans, planOrigin,
          activePlanPointer, weeklyCheckins, decisionRecords, pc, local, ob,
          completed, calc>>

dbVars == <<onboardingData, onboardingComplete, nutritionPlans, planOrigin,
            activePlanPointer, weeklyCheckins, decisionRecords>>

EmptyLocal ==
  [dto |-> Null, weekNumber |-> 0, checkinId |-> 0, recent |-> << >>,
   onboarding |-> Null, pointer |-> Null, planId |-> 0, newPlanId |-> 0,
   result |-> Null, error |-> ""]

EmptyOb == [pc |-> "idle", data |-> Null, planId |-> 0, error |-> ""]

NoCall == [fn |-> "none", in |-> Null, out |-> Null]

Init ==
  /\ onboardingData = Null
  /\ onboardingComplete = FALSE
  /\ nutritionPlans = << >>
  /\ planOrigin = << >>
  /\ activePlanPointer = Null
  /\ weeklyCheckins = << >>
  /\ decisionRecords = << >>
  /\ pc = [p \in Procs |-> "idle"]
  /\ local = [p \in Procs |-> EmptyLocal]
  /\ ob = EmptyOb
  /\ completed = [onboarding |-> 0, checkin |-> 0, onboardingStarted |-> 0]
  /\ calc = NoCall

Resting == {"idle", "done", "failed"}

\* ------------------------------------------------------------------------
\* OnboardingService.submitOnboarding and EngineService.processOnboarding
\* ------------------------------------------------------------------------
\* prisma.onboardingData.upsert
SubmitOnboarding ==
  /\ ob.pc \in Resting
  /\ \A p \in Procs : pc[p] \in Resting
  /\ completed.onboardingStarted < MaxOnboardings
  /\ \E dto \in Profiles :
       /\ onboardingData' = dto
       /\ ob' = [EmptyOb EXCEPT !.pc = "ob_user", !.data = dto]
  /\ completed' = [completed EXCEPT !.onboardingStarted = @ + 1]
  /\ UNCHANGED <<onboardingComplete, nutritionPlans, planOrigin,
                 activePlanPointer, weeklyCheckins, decisionRecords, pc,
                 local, calc>>

\* prisma.user.update, then the rule engine generates and validates the plan;
\* processOnboarding throws when the plan is invalid.
MarkOnboarded ==
  /\ ob.pc = "ob_user"
  /\ onboardingComplete' = TRUE
  /\ ob' = IF OnboardingPlanResult(ob.data).validation.isValid
           THEN [ob EXCEPT !.pc = "ob_plan"]
           ELSE [EmptyOb EXCEPT !.pc = "failed", !.error = "validation"]
  /\ UNCHANGED <<onboardingData, nutritionPlans, planOrigin, activePlanPointer,
                 weeklyCheckins, decisionRecords, pc, local, completed, calc>>

\* prisma.nutritionPlan.create with version: 1
CreateInitialPlan ==
  /\ ob.pc = "ob_plan"
  /\ LET id == Len(nutritionPlans) + 1
         goal == RuleEngineGoal(ob.data.primaryGoal)
         result == OnboardingPlanResult(ob.data)
     IN  /\ nutritionPlans' =
               nutritionPlanCreate(nutritionPlans,
                                   PlanRow(id, 1, NutritionMode(goal), result))
         /\ planOrigin' =
               Append(planOrigin,
                      [trigger |-> "onboarding", goal |-> goal,
                       sex |-> ob.data.sex, basedOn |-> 0, prevCalories |-> 0])
         /\ ob' = [ob EXCEPT !.pc = "ob_training", !.planId = id]
  /\ UNCHANGED <<onboardingData, onboardingComplete, activePlanPointer,
                 weeklyCheckins, decisionRecords, pc, local, completed, calc>>

\* prisma.trainingProgram.create and the supplement recommendations: rows of
\* tables that no nutrition decision reads.
CreateTrainingProgram ==
  /\ ob.pc = "ob_training"
  /\ ob' = [ob EXCEPT !.pc = "ob_pointer"]
  /\ UNCHANGED <<dbVars, pc, local, completed, calc>>

\* prisma.activePlanPointer.upsert
UpsertPointer ==
  /\ ob.pc = "ob_pointer"
  /\ activePlanPointer' = [nutritionPlanVersion |-> 1, currentWeek |-> 1]
  /\ ob' = [ob EXCEPT !.pc = "ob_decision"]
  /\ UNCHANGED <<onboardingData, onboardingComplete, nutritionPlans, planOrigin,
                 weeklyCheckins, decisionRecords, pc, local, completed, calc>>

\* prisma.decisionRecord.create with triggerType 'onboarding', then return
RecordOnboardingDecision ==
  /\ ob.pc = "ob_decision"
  /\ decisionRecords' =
       Append(decisionRecords,
              [triggerType |-> "onboarding",
               triggerDataId |-> 0,
               nutritionChanges |-> "initial_plan",
               calorieAdjustment |-> 0,
               pattern |-> "none",
               weekNumber |-> 1,
               guardrails |-> OnboardingPlanResult(ob.data).validation.warnings,
               nutritionPlanId |-> ob.planId])
  /\ ob' = [EmptyOb EXCEPT !.pc = "done"]
  /\ completed' = [completed EXCEPT !.onboarding = @ + 1]
  /\ UNCHANGED <<onboardingData, onboardingComplete, nutritionPlans, planOrigin,
                 activePlanPointer, weeklyCheckins, pc, local, calc>>

\* ------------------------------------------------------------------------
\* CheckinsService.submitCheckin and EngineService.processCheckin
\* ------------------------------------------------------------------------
\* Check-ins that exist or are about to be created
CheckinsInFlight ==
  Len(weeklyCheckins) + Cardinality({q \in Procs : pc[q] = "ci_create"})

LastCreatedAt ==
  IF weeklyCheckins = << >> THEN 0
  ELSE weeklyCheckins[Len(weeklyCheckins)].createdAt

\* prisma.activePlanPointer.findUnique; throws without a pointer.
\* The executions are interchangeable: a request is served by execution 1
\* unless that one is busy.
SubmitCheckin(p) ==
  /\ pc[p] \in Resting
  /\ \A q \in Procs : q < p => pc[q] \notin Resting
  /\ ob.pc \in Resting
  /\ CheckinsInFlight < MaxCheckins
  /\ IF activePlanPointer = Null
     THEN /\ pc' = [pc EXCEPT ![p] = "failed"]
          /\ local' = [local EXCEPT ![p] =
                         [EmptyLocal EXCEPT !.error = "no_active_plan"]]
     ELSE \E dto \in CheckinDtos :
            /\ pc' = [pc EXCEPT ![p] = "ci_create"]
            /\ local' = [local EXCEPT ![p] =
                           [EmptyLocal EXCEPT
                              !.dto = dto,
                              !.weekNumber = activePlanPointer.currentWeek]]
  /\ UNCHANGED <<dbVars, ob, completed, calc>>

\* A create that replaces the row of the same week, if there is one.
CreateCheckinUpsert(p) ==
  /\ pc[p] = "ci_create"
  /\ \E gap \in CheckinGaps :
       LET same == {i \in DOMAIN weeklyCheckins : weeklyCheckins[i].weekNumber = local[p].weekNumber}
           id == IF same = {} THEN Len(weeklyCheckins) + 1 ELSE CHOOSE i \in same : TRUE
           row == [id |-> id,
                   weekNumber |-> local[p].weekNumber,
                   weight |-> local[p].dto.weight,
                   energy |-> local[p].dto.energy,
                   hunger |-> local[p].dto.hunger,
                   stress |-> local[p].dto.stress,
                   createdAt |-> LastCreatedAt + gap]
       IN  /\ weeklyCheckins' =
                 IF same = {} THEN Append(weeklyCheckins, row)
                 ELSE [weeklyCheckins EXCEPT ![id] = row]
           /\ local' = [local EXCEPT ![p].checkinId = id]
  /\ pc' = [pc EXCEPT ![p] = "ci_find"]
  /\ UNCHANGED <<onboardingData, onboardingComplete, nutritionPlans, planOrigin,
                 activePlanPointer, decisionRecords, ob, completed, calc>>

\* prisma.weeklyCheckin.create
CreateCheckin(p) ==
  /\ pc[p] = "ci_create"
  /\ \E gap \in CheckinGaps :
       LET id == Len(weeklyCheckins) + 1
       IN  /\ weeklyCheckins' =
                 Append(weeklyCheckins,
                        [id |-> id,
                         weekNumber |-> local[p].weekNumber,
                         weight |-> local[p].dto.weight,
                         energy |-> local[p].dto.energy,
                         hunger |-> local[p].dto.hunger,
                         stress |-> local[p].dto.stress,
                         createdAt |-> LastCreatedAt + gap])
           /\ local' = [local EXCEPT ![p].checkinId = id]
  /\ pc' = [pc EXCEPT ![p] = "ci_find"]
  /\ UNCHANGED <<onboardingData, onboardingComplete, nutritionPlans, planOrigin,
                 activePlanPointer, decisionRecords, ob, completed, calc>>

\* prisma.weeklyCheckin.findMany({orderBy: createdAt desc, take: 4}): ids of
\* the newest rows, newest first.
RecentCheckins ==
  LET n == Len(weeklyCheckins)
  IN  [i \in 1..Min(4, n) |-> n + 1 - i]

FindRecentCheckins(p) ==
  /\ pc[p] = "ci_find"
  /\ local' = [local EXCEPT ![p].recent = RecentCheckins]
  /\ pc' = [pc EXCEPT ![p] =
              IF Len(RecentCheckins) < 2 THEN "fc_profile" ELSE "ci_profile"]
  /\ UNCHANGED <<dbVars, ob, completed, calc>>

\* The plan rows prisma.nutritionPlan.findFirst({userId, version}) may return
PlansWithVersion(version) ==
  {i \in DOMAIN nutritionPlans : nutritionPlans[i].version = version}

\* ---- first check-in: no analysis --------------------------------------
FirstReadProfile(p) ==
  /\ pc[p] = "fc_profile"
  /\ local' = [local EXCEPT ![p].onboarding = onboardingData]
  /\ pc' = [pc EXCEPT ![p] = "fc_pointer"]
  /\ UNCHANGED <<dbVars, ob, completed, calc>>

FirstReadPointer(p) ==
  /\ pc[p] = "fc_pointer"
  /\ local' = [local EXCEPT ![p].pointer = activePlanPointer]
  /\ pc' = [pc EXCEPT ![p] = "fc_plan"]
  /\ UNCHANGED <<dbVars, ob, completed, calc>>

\* activePointer.nutritionPlanVersion throws a TypeError without a pointer
FirstReadPlan(p) ==
  /\ pc[p] = "fc_plan"
  /\ IF local[p].pointer = Null
     THEN /\ pc' = [pc EXCEPT ![p] = "failed"]
          /\ local' = [local EXCEPT ![p] = [EmptyLocal EXCEPT !.error = "type_error"]]
     ELSE LET found == PlansWithVersion(local[p].pointer.nutritionPlanVersion)
          IN  /\ pc' = [pc EXCEPT ![p] = "fc_ai"]
              /\ IF found = {}
                 THEN local' = [local EXCEPT ![p].planId = 0]
                 ELSE \E i \in found : local' = [local EXCEPT ![p].planId = i]
  /\ UNCHANGED <<dbVars, ob, completed, calc>>

\* What the explanation collaborator may answer: any title and message.
AIResponses == {[title |-> "Great start", message |-> "Baseline recorded"],
                [title |-> "Keep going", message |-> "Stay consistent"]}

\* The object returned for a first check-in:
\* currentNutritionPlan?.caloriesTarget || 2000.
FirstFeedbackResult(p, response) ==
  [adjustment |-> 0,
   newCalories |->
     IF local[p].planId = 0
        \/ nutritionPlans[local[p].planId].caloriesTarget = 0
     THEN 2000
     ELSE nutritionPlans[local[p].planId].caloriesTarget,
   pattern |-> "first_checkin",
   adjusted |-> FALSE,
   title |-> response.title,
   reasoning |-> response.message]

\* aiService.generateProgressFeedback, then return; onboardingData.primaryGoal
\* throws a TypeError without onboarding data.
FirstFeedback(p) ==
  /\ pc[p] = "fc_ai"
  /\ IF local[p].onboarding = Null
     THEN /\ pc' = [pc EXCEPT ![p] = "failed"]
          /\ local' = [local EXCEPT ![p] = [EmptyLocal EXCEPT !.error = "type_error"]]
          /\ UNCHANGED completed
     ELSE /\ pc' = [pc EXCEPT ![p] = "done"]
          /\ \E response \in AIResponses :
               local' = [local EXCEPT ![p] = [EmptyLocal EXCEPT !.result = FirstFeedbackResult(p, response)]]
          /\ completed' = [completed EXCEPT !.checkin = @ + 1]
  /\ UNCHANGED <<dbVars, ob, calc>>

\* ---- full analysis -----------------------------------------------------
ReadProfile(p) ==
  /\ pc[p] = "ci_profile"
  /\ IF onboardingData = Null
     THEN /\ pc' = [pc EXCEPT ![p] = "failed"]
          /\ local' = [local EXCEPT ![p] =
                         [EmptyLocal EXCEPT !.error = "no_onboarding_data"]]
     ELSE /\ pc' = [pc EXCEPT ![p] = "ci_pointer"]
          /\ local' = [local EXCEPT ![p].onboarding = onboardingData]
  /\ UNCHANGED <<dbVars, ob, completed, calc>>

ReadPointer(p) ==
  /\ pc[p] = "ci_pointer"
  /\ IF activePlanPointer = Null
     THEN /\ pc' = [pc EXCEPT ![p] = "failed"]
          /\ local' = [local EXCEPT ![p] =
                         [EmptyLocal EXCEPT !.error = "no_active_plan"]]
     ELSE /\ pc' = [pc EXCEPT ![p] = "ci_plan"]
          /\ local' = [local EXCEPT ![p].pointer = activePlanPointer]
  /\ UNCHANGED <<dbVars, ob, completed, calc>>

\* c => ({weight: c.weight || 0, createdAt, energyLevel: c.energy, ...})
CheckInData(c) ==
  [weight |-> c.weight, createdAt |-> c.createdAt, energyLevel |-> c.energy,
   hungerLevel |-> c.hunger, stressLevel |-> c.stress]

\* What the execution computes from the rows it has read
GoalOf(l) == RuleEngineGoal(l.onboarding.primaryGoal)
GenderOf(l) == RuleEngineGender(l.onboarding.sex)

AnalysisOf(l, plan) ==
  analyzeCheckInProgress(
    [i \in DOMAIN l.recent |-> CheckInData(weeklyCheckins[l.recent[i]])],
    plan.guidelines.estimatedWeeklyChange,
    GoalOf(l), plan.caloriesTarget, GenderOf(l))

\* analysis.shouldAdjustNutrition && analysis.nutritionAdjustment !== 0
WantsAdjustment(analysis) ==
  analysis.shouldAdjustNutrition /\ analysis.nutritionAdjustment # 0

AdjustedPlanOf(l, plan) ==
  LET analysis == AnalysisOf(l, plan)
  IN  adjustNutritionPlan(CurrentPlanForAdjustment(plan),
                          analysis.nutritionAdjustment, analysis.currentWeight,
                          GenderOf(l), GoalOf(l))

\* An orchestrator that persists the adjusted plan without looking at its
\* validation.
NextWriteUnvalidated(l, plan) ==
  IF WantsAdjustment(AnalysisOf(l, plan)) THEN "ci_new_plan" ELSE "ci_week"

\* What processCheckin does after reading the current plan
NextWrite(l, plan) ==
  IF WantsAdjustment(AnalysisOf(l, plan))
  THEN IF AdjustedPlanOf(l, plan).validation.isValid
       THEN "ci_new_plan"
       ELSE "ci_decision"
  ELSE "ci_week"

\* prisma.nutritionPlan.findFirst; throws when there is no such plan, then
\* the analysis and the adjusted plan are computed
ReadPlan(p) ==
  /\ pc[p] = "ci_plan"
  /\ LET found == PlansWithVersion(local[p].pointer.nutritionPlanVersion)
     IN  IF found = {}
         THEN /\ pc' = [pc EXCEPT ![p] = "failed"]
              /\ local' = [local EXCEPT ![p] =
                         [EmptyLocal EXCEPT !.error = "no_current_plan"]]
         ELSE \E i \in found :
                /\ local' = [local EXCEPT ![p].planId = i]
                /\ pc' = [pc EXCEPT ![p] =
                            NextWrite(local[p], nutritionPlans[i])]
  /\ UNCHANGED <<dbVars, ob, completed, calc>>

\* prisma.nutritionPlan.create with version: currentNutritionPlan.version + 1
CreateAdjustedPlan(p) ==
  /\ pc[p] = "ci_new_plan"
  /\ LET plan == nutritionPlans[local[p].planId]
         id == Len(nutritionPlans) + 1
     IN  /\ nutritionPlans' =
               nutritionPlanCreate(nutritionPlans,
                                   PlanRow(id, plan.version + 1, plan.mode,
                                           AdjustedPlanOf(local[p], plan)))
         /\ planOrigin' =
               Append(planOrigin,
                      [trigger |-> "checkin", goal |-> GoalOf(local[p]),
                       sex |-> local[p].onboarding.sex,
                       basedOn |-> plan.id,
                       prevCalories |-> plan.caloriesTarget])
         /\ local' = [local EXCEPT ![p].newPlanId = id]
  /\ pc' = [pc EXCEPT ![p] = "ci_repoint"]
  /\ UNCHANGED <<onboardingData, onboardingComplete, activePlanPointer,
                 weeklyCheckins, decisionRecords, ob, completed, calc>>

\* prisma.activePlanPointer.update({nutritionPlanVersion, currentWeek})
RepointPointer(p) ==
  /\ pc[p] = "ci_repoint"
  /\ activePlanPointer' =
       [nutritionPlanVersion |-> nutritionPlans[local[p].newPlanId].version,
        currentWeek |-> local[p].pointer.currentWeek + 1]
  /\ pc' = [pc EXCEPT ![p] = "ci_decision"]
  /\ UNCHANGED <<onboardingData, onboardingComplete, nutritionPlans, planOrigin,
                 weeklyCheckins, decisionRecords, local, ob, completed, calc>>

\* prisma.activePlanPointer.update({currentWeek}): no adjustment
AdvanceWeek(p) ==
  /\ pc[p] = "ci_week"
  /\ activePlanPointer' =
       [activePlanPointer EXCEPT !.currentWeek = local[p].pointer.currentWeek + 1]
  /\ pc' = [pc EXCEPT ![p] = "ci_decision"]
  /\ UNCHANGED <<onboardingData, onboardingComplete, nutritionPlans, planOrigin,
                 weeklyCheckins, decisionRecords, local, ob, completed, calc>>

\* prisma.decisionRecord.create with triggerType 'checkin'
RecordCheckinDecision(p) ==
  /\ pc[p] = "ci_decision"
  /\ LET plan == nutritionPlans[local[p].planId]
         analysis == AnalysisOf(local[p], plan)
     IN  decisionRecords' =
           Append(decisionRecords,
                  [triggerType |-> "checkin",
                   triggerDataId |-> local[p].checkinId,
                   nutritionChanges |->
                     IF analysis.shouldAdjustNutrition
                     THEN "adjusted" ELSE "maintained",
                   calorieAdjustment |-> analysis.nutritionAdjustment,
                   pattern |-> analysis.pattern,
                   weekNumber |-> local[p].pointer.currentWeek,
                   guardrails |-> analysis.warnings,
                   nutritionPlanId |->
                     IF local[p].newPlanId # 0
                     THEN local[p].newPlanId ELSE plan.id])
  /\ pc' = [pc EXCEPT ![p] = "ci_ai"]
  /\ UNCHANGED <<onboardingData, onboardingComplete, nutritionPlans, planOrigin,
                 activePlanPointer, weeklyCheckins, local, ob, completed, calc>>

\* A result whose pattern is taken from the collaborator's answer.
CheckinResultFromAI(p, response) ==
  LET plan == nutritionPlans[local[p].planId]
      analysis == AnalysisOf(local[p], plan)
  IN  [adjustment |-> analysis.nutritionAdjustment,
       newCalories |->
         IF local[p].newPlanId # 0
         THEN nutritionPlans[local[p].newPlanId].caloriesTarget
         ELSE plan.caloriesTarget,
       pattern |-> response.title,
       adjusted |-> local[p].newPlanId # 0,
       title |-> response.title,
       reasoning |-> response.message]

\* The object returned by processCheckin after the full analysis; title and
\* reasoning are the collaborator's.
CheckinResult(p, response) ==
  LET plan == nutritionPlans[local[p].planId]
      analysis == AnalysisOf(local[p], plan)
  IN  [adjustment |-> analysis.nutritionAdjustment,
       newCalories |->
         IF local[p].newPlanId # 0
         THEN nutritionPlans[local[p].newPlanId].caloriesTarget
         ELSE plan.caloriesTarget,
       pattern |-> analysis.pattern,
       adjusted |-> local[p].newPlanId # 0,
       title |-> response.title,
       reasoning |-> response.message]

\* aiService.generateProgressFeedback, then return
Feedback(p) ==
  /\ pc[p] = "ci_ai"
  /\ \E response \in AIResponses :
       local' = [local EXCEPT ![p] = [EmptyLocal EXCEPT !.result = CheckinResult(p, response)]]
  /\ pc' = [pc EXCEPT ![p] = "done"]
  /\ completed' = [completed EXCEPT !.checkin = @ + 1]
  /\ UNCHANGED <<dbVars, ob, calc>>

Next ==
  \/ SubmitOnboarding
  \/ MarkOnboarded
  \/ CreateInitialPlan
  \/ CreateTrainingProgram
  \/ UpsertPointer
  \/ RecordOnboardingDecision
  \/ \E p \in Procs : SubmitCheckin(p)
  \/ \E p \in Procs : CreateCheckin(p)
  \/ \E p \in Procs : FindRecentCheckins(p)
  \/ \E p \in Procs : FirstReadProfile(p)
  \/ \E p \in Procs : FirstReadPointer(p)
  \/ \E p \in Procs : FirstReadPlan(p)
  \/ \E p \in Procs : FirstFeedback(p)
  \/ \E p \in Procs : ReadProfile(p)
  \/ \E p \in Procs : ReadPointer(p)
  \/ \E p \in Procs : ReadPlan(p)
  \/ \E p \in Procs : CreateAdjustedPlan(p)
  \/ \E p \in Procs : RepointPointer(p)
  \/ \E p \in Procs : AdvanceWeek(p)
  \/ \E p \in Procs : RecordCheckinDecision(p)
  \/ \E p \in Procs : Feedback(p)

Spec == Init /\ [][Next]_vars

\* ------------------------------------------------------------------------
\* EngineService.processCheckin called on a given store
\* ------------------------------------------------------------------------
\* processCheckin reads the user's rows from the database and tests each for
\* absence, so the store is an input of the call: the profile, the pointer
\* and the plan row are each present or missing, and one or two check-in rows
\* exist, the newest being the one handed to the call.
EngineOwners == {d \in Profiles : OnboardingPlanResult(d).validation.isValid}

EngineCheckinRow(i, weight) ==
  [id |-> i, weekNumber |-> i, weight |-> weight, energy |-> 5, hunger |-> 3,
   stress |-> 3, createdAt |-> 7 * i]

EngineHistories ==
  {<<EngineCheckinRow(1, w)>> : w \in CheckinWeights}
    \cup {<<EngineCheckinRow(1, w), EngineCheckinRow(2, v)>> : w \in CheckinWeights, v \in CheckinWeights}

EngineInit ==
  \E owner \in EngineOwners, hasProfile \in BOOLEAN, hasPointer \in BOOLEAN,
     hasPlan \in BOOLEAN, history \in EngineHistories :
    LET goal == RuleEngineGoal(owner.primaryGoal)
        last == history[Len(history)]
    IN  /\ onboardingData = IF hasProfile THEN owner ELSE Null
        /\ onboardingComplete = hasProfile
        /\ nutritionPlans =
             IF hasPlan
             THEN <<PlanRow(1, 1, NutritionMode(goal), OnboardingPlanResult(owner))>>
             ELSE << >>
        /\ planOrigin =
             IF hasPlan
             THEN <<[trigger |-> "onboarding", goal |-> goal, sex |-> owner.sex,
                     basedOn |-> 0, prevCalories |-> 0]>>
             ELSE << >>
        /\ activePlanPointer =
             IF hasPointer
             THEN [nutritionPlanVersion |-> 1, currentWeek |-> Len(history)]
             ELSE Null
        /\ weeklyCheckins = history
        /\ decisionRecords = << >>
        /\ pc = [p \in Procs |-> IF p = 1 THEN "ci_find" ELSE "idle"]
        /\ local = [p \in Procs |->
                      IF p = 1
                      THEN [EmptyLocal EXCEPT
                              !.dto = [weight |-> last.weight, energy |-> last.energy,
                                       hunger |-> last.hunger, stress |-> last.stress],
                              !.weekNumber = last.weekNumber,
                              !.checkinId = last.id]
                      ELSE EmptyLocal]
        /\ ob = EmptyOb
        /\ completed = [onboarding |-> 0, checkin |-> 0, onboardingStarted |-> 0]
        /\ calc = NoCall

EngineNext ==
  \/ \E p \in Procs : FindRecentCheckins(p)
  \/ \E p \in Procs : FirstReadProfile(p)
  \/ \E p \in Procs : FirstReadPointer(p)
  \/ \E p \in Procs : FirstReadPlan(p)
  \/ \E p \in Procs : FirstFeedback(p)
  \/ \E p \in Procs : ReadProfile(p)
  \/ \E p \in Procs : ReadPointer(p)
  \/ \E p \in Procs : ReadPlan(p)
  \/ \E p \in Procs : CreateAdjustedPlan(p)
  \/ \E p \in Procs : RepointPointer(p)
  \/ \E p \in Procs : AdvanceWeek(p)
  \/ \E p \in Procs : RecordCheckinDecision(p)
  \/ \E p \in Procs : Feedback(p)

EngineSpec == EngineInit /\ [][EngineNext]_vars

\* ------------------------------------------------------------------------
\* The pure calculators, called on their own
\* ------------------------------------------------------------------------
ProgressWeights == 785..815
ProgressPreviousWeights == {800}
ProgressDays == {7, 14}
ProgressExpected == {-60, -45, -20, 0, 21, 30}

CallCalculateTargetCalories ==
  /\ calc = NoCall
  /\ \E tdee \in 1..MaxTdee, goal \in Goals :
       calc' = [fn |-> "calculateTargetCalories",
                in |-> [tdee |-> tdee, goal |-> goal],
                out |-> calculateTargetCalories(tdee, goal)]
  /\ UNCHANGED <<dbVars, pc, local, ob, completed>>

CallAnalyzeProgress ==
  /\ calc = NoCall
  /\ \E currentWeight \in ProgressWeights,
        previousWeight \in ProgressPreviousWeights,
        days \in ProgressDays,
        goal \in Goals,
        expectedWeeklyChange \in ProgressExpected :
       calc' = [fn |-> "analyzeProgress",
                in |-> [currentWeight |-> currentWeight,
                        previousWeight |-> previousWeight,
                        days |-> days,
                        goal |-> goal,
                        expectedWeeklyChange |-> expectedWeeklyChange],
                out |-> analyzeProgress(currentWeight, previousWeight, days,
                                        goal, expectedWeeklyChange)]
  /\ UNCHANGED <<dbVars, pc, local, ob, completed>>

\* Check-in histories for analyzeCheckInProgress: 2..MaxHistory check-ins a
\* week apart, oldest first.
StallWeights == {798, 800, 801}

HistoryOf(weights) ==
  [i \in DOMAIN weights |->
     [weight |-> weights[i], createdAt |-> 7 * i, energyLevel |-> 5,
      hungerLevel |-> 3, stressLevel |-> 3]]

CallAnalyzeCheckInProgress ==
  /\ calc = NoCall
  /\ \E n \in 2..MaxHistory :
       \E weights \in [1..n -> StallWeights], goal \in Goals :
         calc' = [fn |-> "analyzeCheckInProgress",
                  in |-> [recentCheckIns |-> HistoryOf(weights),
                          expectedWeeklyChange |-> -45,
                          goal |-> goal,
                          currentCalories |-> 2259,
                          gender |-> "male"],
                  out |-> analyzeCheckInProgress(HistoryOf(weights), -45, goal,
                                                 2259, "male")]
  /\ UNCHANGED <<dbVars, pc, local, ob, completed>>

MacroWeights == {500, 800, 1000}

CallCalculateMacros ==
  /\ calc = NoCall
  /\ \E weight \in MacroWeights, targetCalories \in 1..MaxTdee, goal \in Goals :
       calc' = [fn |-> "calculateMacros",
                in |-> [weight |-> weight, targetCalories |-> targetCalories,
                        goal |-> goal],
                out |-> calculateMacros(weight, targetCalories, goal)]
  /\ UNCHANGED <<dbVars, pc, local, ob, completed>>

PlanCalories == {1100, 1300, 1600, 2000, 2300, 3200}
PlanProteins == {60, 130, 250}
PlanWeights == {500, 800}
PlanTdees == {1800, 2759}
Genders == {"male", "female"}

CallValidateNutritionPlan ==
  /\ calc = NoCall
  /\ \E calories \in PlanCalories, protein \in PlanProteins,
        weight \in PlanWeights, gender \in Genders, tdee \in PlanTdees,
        goal \in Goals :
       calc' = [fn |-> "validateNutritionPlan",
                in |-> [calories |-> calories, protein |-> protein,
                        weight |-> weight, gender |-> gender, tdee |-> tdee,
                        goal |-> goal],
                out |-> validateNutritionPlan(calories, protein, weight,
                                              gender, tdee, goal)]
  /\ UNCHANGED <<dbVars, pc, local, ob, completed>>

\* ------------------------------------------------------------------------
\* Action selector
\* ------------------------------------------------------------------------
\* The rule pack is configuration loaded from outside the service; its shape
\* is the RulePack interface.  The selector is analysed for each of these
\* packs.  Percentages are whole percents, the confidence threshold is in
\* hundredths, the plateau threshold in tenths of a kg and the minimum waist
\* decrease in tenths of a cm.
RulePacks == {
    [trendAnalysis |-> [minimumConfidenceForAction |-> 50, plateauThreshold |-> [maxWeightChange |-> 3], recompThreshold |-> [minWaistDecrease |-> 10]], safetyConstraints |-> [calorieFloor |-> [male |-> 1500, female |-> 1200], maxDeficitPercent |-> 25, maxSurplusPercent |-> 15]],
    [trendAnalysis |-> [minimumConfidenceForAction |-> 70, plateauThreshold |-> [maxWeightChange |-> 5], recompThreshold |-> [minWaistDecrease |-> 20]], safetyConstraints |-> [calorieFloor |-> [male |-> 1600, female |-> 1300], maxDeficitPercent |-> 30, maxSurplusPercent |-> 20]] }

\* EngineState.nutritionMode, and currentMode.startsWith(prefix).
NutritionModes == {"CUT_ACTIVE", "CUT_HOLD", "CUT_RECOVERY", "MAINTAIN", "GAIN_ACTIVE", "GAIN_HOLD"}
StartsWith(mode, prefix) ==
  IF prefix = "CUT" THEN mode \in {"CUT_ACTIVE", "CUT_HOLD", "CUT_RECOVERY"}
  ELSE IF prefix = "GAIN" THEN mode \in {"GAIN_ACTIVE", "GAIN_HOLD"}
  ELSE FALSE

Trends == {"decreasing", "stable", "increasing"}
RiskLevels == {"low", "moderate", "high", "critical"}

\* Apply safety guardrails: the first bound that is crossed decides the result.
applyGuardrails(targetCalories, userContext, rulePack) ==
  LET sc == rulePack.safetyConstraints
      calorieFloor == IF userContext.sex = "male" THEN sc.calorieFloor.male ELSE sc.calorieFloor.female
      minCaloriesFromDeficit100 == userContext.tdee * (100 - sc.maxDeficitPercent)
      maxCaloriesFromSurplus100 == userContext.tdee * (100 + sc.maxSurplusPercent)
  IN  IF targetCalories < calorieFloor THEN calorieFloor
      ELSE IF targetCalories * 100 < minCaloriesFromDeficit100 THEN Round(minCaloriesFromDeficit100, 100)
      ELSE IF targetCalories * 100 > maxCaloriesFromSurplus100 THEN Round(maxCaloriesFromSurplus100, 100)
      ELSE targetCalories

selectCutAdjustment(trend, userContext, rulePack) ==
  LET adjustment == IF trend = "decreasing" THEN 0 ELSE IF trend = "stable" THEN -100 ELSE -150
      reasoning == IF trend = "decreasing" THEN "Making progress in deficit"
                   ELSE IF trend = "stable" THEN "Plateau detected, reducing calories"
                   ELSE "Weight increasing despite deficit"
  IN  [adjustment |-> adjustment,
       newCalories |-> applyGuardrails(userContext.currentCalories + adjustment, userContext, rulePack),
       reasoning |-> reasoning]

selectGainAdjustment(trend, userContext, rulePack) ==
  LET adjustment == IF trend = "increasing" THEN 0 ELSE IF trend = "stable" THEN 100 ELSE 150
      reasoning == IF trend = "increasing" THEN "Making progress in surplus"
                   ELSE IF trend = "stable" THEN "Stable weight, increasing surplus"
                   ELSE "Weight decreasing despite surplus"
  IN  [adjustment |-> adjustment,
       newCalories |-> applyGuardrails(userContext.currentCalories + adjustment, userContext, rulePack),
       reasoning |-> reasoning]

\* The selector with the recovery-risk overrides tested before the confidence.
selectCalorieAdjustmentRiskFirst(params, rulePack) ==
  LET userContext == params.userContext
  IN  IF params.riskLevel = "critical"
      THEN [adjustment |-> 200,
            newCalories |-> applyGuardrails(userContext.currentCalories + 200, userContext, rulePack),
            reasoning |-> "Critical recovery risk detected"]
      ELSE IF params.riskLevel = "high"
      THEN LET adjustment == IF params.trend = "decreasing" THEN 100 ELSE 0
           IN  [adjustment |-> adjustment,
                newCalories |-> applyGuardrails(userContext.currentCalories + adjustment, userContext, rulePack),
                reasoning |-> "High recovery risk, holding or increasing slightly"]
      ELSE IF params.confidence < rulePack.trendAnalysis.minimumConfidenceForAction
      THEN [adjustment |-> 0, newCalories |-> userContext.currentCalories, reasoning |-> "Confidence too low"]
      ELSE IF StartsWith(params.currentMode, "CUT") THEN selectCutAdjustment(params.trend, userContext, rulePack)
      ELSE IF StartsWith(params.currentMode, "GAIN") THEN selectGainAdjustment(params.trend, userContext, rulePack)
      ELSE [adjustment |-> 0, newCalories |-> userContext.currentCalories, reasoning |-> "Maintenance mode"]

\* Select calorie adjustment based on trend and recovery risk.
selectCalorieAdjustment(params, rulePack) ==
  LET userContext == params.userContext
  IN  IF params.confidence < rulePack.trendAnalysis.minimumConfidenceForAction
      THEN [adjustment |-> 0, newCalories |-> userContext.currentCalories, reasoning |-> "Confidence too low"]
      ELSE IF params.riskLevel = "critical"
      THEN [adjustment |-> 200,
            newCalories |-> applyGuardrails(userContext.currentCalories + 200, userContext, rulePack),
            reasoning |-> "Critical recovery risk detected"]
      ELSE IF params.riskLevel = "high"
      THEN LET adjustment == IF params.trend = "decreasing" THEN 100 ELSE 0
           IN  [adjustment |-> adjustment,
                newCalories |-> applyGuardrails(userContext.currentCalories + adjustment, userContext, rulePack),
                reasoning |-> "High recovery risk, holding or increasing slightly"]
      ELSE IF StartsWith(params.currentMode, "CUT") THEN selectCutAdjustment(params.trend, userContext, rulePack)
      ELSE IF StartsWith(params.currentMode, "GAIN") THEN selectGainAdjustment(params.trend, userContext, rulePack)
      ELSE [adjustment |-> 0, newCalories |-> userContext.currentCalories, reasoning |-> "Maintenance mode"]

\* Calls of selectCalorieAdjustment: confidences on both sides of each pack's
\* threshold, calories below, inside and above the guardrail band.
SelectorConfidences == {30, 60, 90}
SelectorCalories == {1000, 1450, 2300, 3400}
SelectorTdees == {1247, 2759}
SelectorSexes == {"male", "female", "M"}

CallSelectCalorieAdjustment ==
  /\ calc = NoCall
  /\ \E trend \in Trends, riskLevel \in RiskLevels, confidence \in SelectorConfidences,
        currentMode \in NutritionModes, currentCalories \in SelectorCalories,
        tdee \in SelectorTdees, sex \in SelectorSexes, goal \in Goals, rulePack \in RulePacks :
       LET params == [trend |-> trend, riskLevel |-> riskLevel, confidence |-> confidence,
                      currentMode |-> currentMode,
                      userContext |-> [currentCalories |-> currentCalories, tdee |-> tdee,
                                       weight |-> 800, sex |-> sex, goal |-> goal]]
       IN  calc' = [fn |-> "selectCalorieAdjustment",
                    in |-> [params |-> params, rulePack |-> rulePack],
                    out |-> selectCalorieAdjustment(params, rulePack)]
  /\ UNCHANGED <<dbVars, pc, local, ob, completed>>

\* ------------------------------------------------------------------------
\* Signal interpreter
\* ------------------------------------------------------------------------
\* A check-in without a waist measurement (waist null or undefined).
NoWaist == -1

\* [...checkins].sort((a, b) => a.createdAt - b.createdAt): the oldest and the
\* newest entry (the dates of a window are distinct).
OldestOf(checkins) ==
  checkins[CHOOSE i \in DOMAIN checkins : \A j \in DOMAIN checkins : checkins[i].createdAt <= checkins[j].createdAt]
NewestOf(checkins) ==
  checkins[CHOOSE i \in DOMAIN checkins : \A j \in DOMAIN checkins : checkins[i].createdAt >= checkins[j].createdAt]

\* analyzeTrend: direction and weight change over the window (the confidence
\* it also reports is computed from adherence and events only).
analyzeTrend(checkins, rulePack) ==
  IF Len(checkins) < 2 THEN [trend |-> "stable", avgWeightChange |-> 0]
  ELSE LET weightChange == NewestOf(checkins).weight - OldestOf(checkins).weight
           plateauThreshold == rulePack.trendAnalysis.plateauThreshold.maxWeightChange
       IN  [trend |-> IF Abs(weightChange) <= plateauThreshold THEN "stable"
                      ELSE IF weightChange < 0 THEN "decreasing" ELSE "increasing",
            avgWeightChange |-> weightChange]

\* Detect recomposition (stable weight but waist decreasing).
detectRecomp(checkins, rulePack) ==
  IF Len(checkins) < 2 THEN FALSE
  ELSE IF \E i \in DOMAIN checkins : checkins[i].waist = NoWaist THEN FALSE
  ELSE LET waistChange == NewestOf(checkins).waist - OldestOf(checkins).waist
       IN  /\ analyzeTrend(checkins, rulePack).trend = "stable"
           /\ waistChange <= rulePack.trendAnalysis.recompThreshold.minWaistDecrease

\* Calls of detectRecomp: windows of one to three check-ins, oldest first or
\* newest first, with or without waist measurements.
RecompWeights == {800, 802, 810}
RecompWaists == {NoWaist, 880, 895, 900, 910}
RecompEntries == [weight : RecompWeights, waist : RecompWaists]
RecompWindow(entries, newestFirst) ==
  [i \in DOMAIN entries |->
     [weight |-> entries[i].weight, waist |-> entries[i].waist,
      createdAt |-> IF newestFirst THEN 7 * (Len(entries) + 1 - i) ELSE 7 * i]]

CallDetectRecomp ==
  /\ calc = NoCall
  /\ \E n \in 1..3, newestFirst \in BOOLEAN, rulePack \in RulePacks :
       \E entries \in [1..n -> RecompEntries] :
         LET checkins == RecompWindow(entries, newestFirst)
         IN  calc' = [fn |-> "detectRecomp",
                      in |-> [checkins |-> checkins, rulePack |-> rulePack],
                      out |-> detectRecomp(checkins, rulePack)]
  /\ UNCHANGED <<dbVars, pc, local, ob, completed>>

\* The call returns; the calculators keep no state between calls
Return ==
  /\ calc # NoCall
  /\ calc' = NoCall
  /\ UNCHANGED <<dbVars, pc, local, ob, completed>>

CalcNext ==
  \/ CallCalculateTargetCalories
  \/ CallAnalyzeProgress
  \/ CallAnalyzeCheckInProgress
  \/ CallCalculateMacros
  \/ CallValidateNutritionPlan
  \/ CallSelectCalorieAdjustment
  \/ CallDetectRecomp
  \/ Return

CalcSpec == Init /\ [][CalcNext]_vars

\* ------------------------------------------------------------------------
\* Properties
\* ------------------------------------------------------------------------
PlanIds == DOMAIN nutritionPlans

CheckinPlanIds == {i \in PlanIds : planOrigin[i].trigger = "checkin"}

\* The sex the user declared, in either encoding
UserSex(sex) == IF sex \in {"M", "male"} THEN "male" ELSE "female"

\* C1: two concurrent check-in executions of a user never both create a
\* nutrition plan version derived from the same prior active version (here:
\* after a single onboarding, no two plans created by check-ins are based on
\* the same plan row).
C1_NoDivergentVersions ==
  completed.onboardingStarted <= 1 =>
    \A i, j \in CheckinPlanIds :
      i # j => planOrigin[i].basedOn # planOrigin[j].basedOn

\* C2: every persisted nutrition plan has a caloriesTarget at or above the
\* minimum for the user's sex (1500 male, 1200 female).
C2_CalorieFloor ==
  \A i \in PlanIds :
    nutritionPlans[i].caloriesTarget
      >= MIN_CALORIES[UserSex(planOrigin[i].sex)]

\* C3: every persisted plan created for a weight_loss user has
\* TDEE - caloriesTarget <= 500 and every plan created for a muscle_gain user
\* has caloriesTarget - TDEE <= 300, TDEE being the value stored with the plan.
C3_DeficitAndSurplusCaps ==
  \A i \in PlanIds :
    LET plan == nutritionPlans[i]
    IN  /\ planOrigin[i].goal = "weight_loss"
             => plan.guidelines.tdee - plan.caloriesTarget <= 500
        /\ planOrigin[i].goal = "muscle_gain"
             => plan.caloriesTarget - plan.guidelines.tdee <= 300

\* A check-in has created a weight_loss plan whose deficit is exactly the
\* 500 kcal cap.
C3_Witness ==
  \E i \in CheckinPlanIds :
    /\ planOrigin[i].goal = "weight_loss"
    /\ nutritionPlans[i].guidelines.tdee - nutritionPlans[i].caloriesTarget
         = 500

\* C4: every plan version created by a check-in has a caloriesTarget within
\* 200 kcal of the caloriesTarget of the plan that was active (read as the
\* current plan) when that check-in was processed.
C4_StepAtMost200 ==
  \A i \in CheckinPlanIds :
    Abs(nutritionPlans[i].caloriesTarget - planOrigin[i].prevCalories) <= 200

\* A check-in has moved the target by the full 200 kcal.
C4_Witness ==
  \E i \in CheckinPlanIds :
    Abs(nutritionPlans[i].caloriesTarget - planOrigin[i].prevCalories) = 200

\* The adjusted plan the execution p proposed has failed validation
Rejected(p) ==
  /\ pc[p] \in {"ci_decision", "ci_ai"}
  /\ WantsAdjustment(AnalysisOf(local[p], nutritionPlans[local[p].planId]))
  /\ ~AdjustedPlanOf(local[p], nutritionPlans[local[p].planId])
        .validation.isValid

DecisionOf(checkinId) ==
  CHOOSE d \in {decisionRecords[k] : k \in DOMAIN decisionRecords} :
    d.triggerType = "checkin" /\ d.triggerDataId = checkinId

InSeq(x, s) == \E k \in DOMAIN s : s[k] = x

\* No step of an execution whose proposal was rejected creates a plan
\* version or touches the pointer.
C5_RejectedStepKeepsPlan ==
  \A p \in Procs :
    (Rejected(p) /\ pc'[p] # pc[p])
      => UNCHANGED <<nutritionPlans, activePlanPointer>>

\* Once the decision record of a rejected proposal is written, it lists
\* every violation among its guardrails.
C5_ViolationRecorded ==
  \A p \in Procs :
    (Rejected(p) /\ pc[p] = "ci_ai") =>
      LET violations ==
            AdjustedPlanOf(local[p], nutritionPlans[local[p].planId])
              .validation.violations
      IN  \A k \in DOMAIN violations :
            InSeq(violations[k], DecisionOf(local[p].checkinId).guardrails)

\* C5: when the adjusted plan proposed during a check-in fails safety
\* validation, the pointer still references the prior version, no new plan
\* version is created, and the decision record written for that check-in
\* lists the violation among its guardrails.
C5_RejectionRecorded ==
  [][C5_RejectedStepKeepsPlan]_vars /\ []C5_ViolationRecorded

AllResting == ob.pc \in Resting /\ \A p \in Procs : pc[p] \in Resting

\* C6: every completed onboarding and every completed check-in (the first
\* one included) has appended exactly one decision record.
C6_OneDecisionPerEvent ==
  AllResting =>
    Len(decisionRecords) = completed.onboarding + completed.checkin

\* C7: the version numbers of a user's nutrition plans are pairwise distinct
\* and increase in creation order.
C7_VersionsIncrease ==
  \A i, j \in PlanIds :
    i < j => nutritionPlans[i].version < nutritionPlans[j].version

\* C8: creating a plan version and repointing the active-plan pointer are one
\* atomic step: in no state does a newer version exist while the pointer
\* still references the previous one.
C8_AtomicRepoint ==
  activePlanPointer # Null =>
    \A i \in PlanIds :
      nutritionPlans[i].version <= activePlanPointer.nutritionPlanVersion

ActualRate == 70 * (calc.in.currentWeight - calc.in.previousWeight)
ExpectedRate == calc.in.expectedWeeklyChange * calc.in.days
OutOfTolerance == Abs(ActualRate - ExpectedRate) > 20 * calc.in.days

\* C11: for weight_loss, whenever progress is not within tolerance and the
\* actual weekly change is >= 0, analyzeProgress returns pattern reversed
\* with recommendedCalorieChange -150.
C11_WeightLossReversed ==
  (calc.fn = "analyzeProgress" /\ calc.in.goal = "weight_loss"
     /\ OutOfTolerance /\ ActualRate >= 0)
    => (calc.out.pattern = "reversed"
          /\ calc.out.recommendedCalorieChange = -150)

\* C12: for muscle_gain, whenever progress is not within tolerance and the
\* actual weekly change is <= -0.2 kg/week, analyzeProgress returns pattern
\* reversed with recommendedCalorieChange +200.
C12_MuscleGainReversed ==
  (calc.fn = "analyzeProgress" /\ calc.in.goal = "muscle_gain"
     /\ OutOfTolerance /\ ActualRate <= -(20 * calc.in.days))
    => (calc.out.pattern = "reversed"
          /\ calc.out.recommendedCalorieChange = 200)

\* C13: analyzeProgress is total: every call returns one of the five
\* patterns, and shouldAdjust is false exactly when recommendedCalorieChange
\* is 0.
C13_AnalyzeProgressTotal ==
  calc.fn = "analyzeProgress" =>
    /\ calc.out.pattern \in Patterns
    /\ calc.out.shouldAdjust \in BOOLEAN
    /\ (calc.out.shouldAdjust = FALSE)
         <=> (calc.out.recommendedCalorieChange = 0)

\* A maintenance user gaining 0.5 kg/week: too_slow with a non-zero change.
C13_Witness ==
  /\ calc.fn = "analyzeProgress"
  /\ calc.in.goal = "maintenance"
  /\ calc.out.pattern = "too_slow"
  /\ calc.out.shouldAdjust
  /\ calc.out.recommendedCalorieChange = -100

\* The weights of the most recent (up to 4) check-ins of a history given
\* oldest first
LatestWeights(history) ==
  {history[i].weight : i \in {k \in DOMAIN history : k > Len(history) - 4}}

C15_MacrosReconstructTarget ==
  calc.fn = "calculateMacros" =>
    /\ calc.out.carbs >= 0
    /\ Abs(calc.out.protein * 4 + calc.out.fat * 9 + calc.out.carbs * 4
             - calc.in.targetCalories) * 20 <= calc.in.targetCalories
    /\ validateMacros(calc.out, calc.in.targetCalories)

\* The hard checks a validateNutritionPlan call violates, stated on its
\* input (weight in tenths of a kg)
ViolatedChecks(in) ==
  {c \in {"min_calories", "max_deficit", "max_surplus", "min_protein",
          "weekly_loss"} :
     \/ c = "min_calories"
          /\ in.calories < (IF in.gender = "male" THEN 1500 ELSE 1200)
     \/ c = "max_deficit"
          /\ in.goal = "weight_loss" /\ in.tdee - in.calories > 500
     \/ c = "max_surplus"
          /\ in.goal = "muscle_gain" /\ in.calories - in.tdee > 300
     \/ c = "min_protein" /\ 100 * in.protein < 16 * in.weight
     \/ c = "weekly_loss"
          /\ in.goal = "weight_loss"
          /\ 10000 * (in.tdee - in.calories) > 11000 * in.weight}

\* C16: validateNutritionPlan evaluates all of its checks on every call: the
\* violations list has exactly one entry for each violated hard check,
\* isValid is true exactly when the list is empty, and the protein-above-
\* 3.0 g/kg warning never makes a plan invalid.
C16_AllChecksEvaluated ==
  calc.fn = "validateNutritionPlan" =>
    LET violations == calc.out.violations
        violated == ViolatedChecks(calc.in)
    IN  /\ \A c \in violated : InSeq(c, violations)
        /\ \A k \in DOMAIN violations : violations[k] \in violated
        /\ Len(violations) = Cardinality(violated)
        /\ calc.out.isValid <=> (violations = << >>)
        /\ violated = {} => calc.out.isValid
        /\ (10 * calc.in.protein > 3 * calc.in.weight)
             <=> (calc.out.warnings # << >>)

\* A call that violates three hard checks at once and also carries the
\* high-protein warning.
C16_Witness ==
  /\ calc.fn = "validateNutritionPlan"
  /\ Len(calc.out.violations) = 3
  /\ calc.out.warnings # << >>
  /\ ~calc.out.isValid

\* The calorie change analyzeProgress recommends to the execution p, which
\* has read its plan
RecommendedChange(p) ==
  LET plan == nutritionPlans[local[p].planId]
      analysis == AnalysisOf(local[p], plan)
  IN  analyzeProgress(analysis.currentWeight, analysis.previousWeight,
                      analysis.days, GoalOf(local[p]),
                      plan.guidelines.estimatedWeeklyChange)

\* validateAdjustment has rejected the recommended change of the execution
\* p, whose writes are complete
AdjustmentRejected(p) ==
  /\ pc[p] = "ci_ai"
  /\ RecommendedChange(p).shouldAdjust
  /\ LET current == nutritionPlans[local[p].planId].caloriesTarget
         proposed == current + RecommendedChange(p).recommendedCalorieChange
         floor == IF GenderOf(local[p]) = "male" THEN 1500 ELSE 1200
     IN  Abs(proposed - current) > 200 \/ proposed < floor

ClampedChange(p) ==
  IF RecommendedChange(p).recommendedCalorieChange > 0 THEN 100 ELSE -100

\* C17 as stated: whenever validateAdjustment rejects the recommended change
\* during a check-in, the change is replaced by 100 kcal in the recommended
\* direction and that clamped change is applied as a new plan version
\* (stated for a user who has onboarded once, so that each version is one row).
C17_ClampedChangeApplied ==
  \A p \in Procs :
    (AdjustmentRejected(p) /\ completed.onboardingStarted <= 1) =>
      /\ local[p].newPlanId # 0
      /\ nutritionPlans[local[p].newPlanId].caloriesTarget
           = nutritionPlans[local[p].planId].caloriesTarget + ClampedChange(p)

\* C17 as amended: the rejected change is replaced by 100 kcal in the
\* recommended direction; the plan with the clamped change becomes a new
\* version exactly when it passes validateNutritionPlan, and is dropped
\* otherwise.
C17_ClampedChangeProposed ==
  \A p \in Procs :
    AdjustmentRejected(p) =>
      LET plan == nutritionPlans[local[p].planId]
          proposed == AdjustedPlanOf(local[p], plan)
      IN  /\ AnalysisOf(local[p], plan).nutritionAdjustment = ClampedChange(p)
          /\ proposed.targetCalories = plan.caloriesTarget + ClampedChange(p)
          /\ (local[p].newPlanId # 0) <=> proposed.validation.isValid
          /\ local[p].newPlanId # 0 =>
               nutritionPlans[local[p].newPlanId].caloriesTarget
                 = plan.caloriesTarget + ClampedChange(p)

\* A rejected change of -150 has been applied as -100.
C17_Witness ==
  \E p \in Procs :
    /\ AdjustmentRejected(p)
    /\ RecommendedChange(p).recommendedCalorieChange = -150
    /\ local[p].newPlanId # 0
    /\ nutritionPlans[local[p].newPlanId].caloriesTarget
         = nutritionPlans[local[p].planId].caloriesTarget - 100

\* C18: selectCalorieAdjustment applies its rules in strict priority order:
\* a confidence below the configured minimum returns adjustment 0 and the
\* current calories for every risk level, trend and mode; otherwise critical
\* risk yields +200; otherwise high risk yields +100 on a decreasing trend and
\* 0 on any other; only otherwise does the CUT/GAIN/MAINTAIN logic decide.
ModeAdjustment(mode, trend) ==
  IF mode \in {"CUT_ACTIVE", "CUT_HOLD", "CUT_RECOVERY"}
  THEN (IF trend = "decreasing" THEN 0 ELSE IF trend = "stable" THEN -100 ELSE -150)
  ELSE IF mode \in {"GAIN_ACTIVE", "GAIN_HOLD"}
  THEN (IF trend = "increasing" THEN 0 ELSE IF trend = "stable" THEN 100 ELSE 150)
  ELSE 0
C18_StrictPriority ==
  calc.fn = "selectCalorieAdjustment" =>
    LET params == calc.in.params
        lowConfidence == params.confidence < calc.in.rulePack.trendAnalysis.minimumConfidenceForAction
    IN  /\ lowConfidence =>
             /\ calc.out.adjustment = 0
             /\ calc.out.newCalories = params.userContext.currentCalories
        /\ (~lowConfidence /\ params.riskLevel = "critical") => calc.out.adjustment = 200
        /\ (~lowConfidence /\ params.riskLevel = "high") =>
             calc.out.adjustment = (IF params.trend = "decreasing" THEN 100 ELSE 0)
        /\ (~lowConfidence /\ params.riskLevel \notin {"critical", "high"}) =>
             calc.out.adjustment = ModeAdjustment(params.currentMode, params.trend)
C18_Witness ==
  /\ calc.fn = "selectCalorieAdjustment"
  /\ calc.in.params.riskLevel = "critical"
  /\ calc.in.params.confidence = 60
  /\ calc.in.rulePack.trendAnalysis.minimumConfidenceForAction = 70
  /\ calc.in.params.currentMode = "CUT_ACTIVE"
  /\ calc.in.params.trend = "increasing"
  /\ calc.out.adjustment = 0
  /\ calc.out.newCalories = calc.in.params.userContext.currentCalories

\* C19: the newCalories returned by selectCalorieAdjustment is at or above
\* the sex calorie floor, at or above TDEE*(1 - maxDeficitPercent) and at or
\* below TDEE*(1 + maxSurplusPercent), on every return path.
C19_NewCaloriesWithinGuardrails ==
  calc.fn = "selectCalorieAdjustment" =>
    LET userContext == calc.in.params.userContext
        sc == calc.in.rulePack.safetyConstraints
        floor == IF userContext.sex = "male" THEN sc.calorieFloor.male ELSE sc.calorieFloor.female
    IN  /\ calc.out.newCalories >= floor
        /\ calc.out.newCalories * 100 >= userContext.tdee * (100 - sc.maxDeficitPercent)
        /\ calc.out.newCalories * 100 <= userContext.tdee * (100 + sc.maxSurplusPercent)

\* C20: in processCheckin the explanation collaborator is invoked only after
\* every plan, pointer and decision-record write of that check-in is complete
\* (the step that follows the call writes nothing and ends the request, and
\* the decision record of a fully analysed check-in already exists), and the
\* returned adjustment, newCalories and pattern are the same for every
\* response the collaborator could have given.
SameOutcome(a, b) ==
  /\ a.adjustment = b.adjustment
  /\ a.newCalories = b.newCalories
  /\ a.pattern = b.pattern
C20_ExplanationCannotInfluence ==
  [][\A p \in Procs :
       (pc[p] \in {"ci_ai", "fc_ai"} /\ pc'[p] # pc[p]) =>
         /\ UNCHANGED dbVars
         /\ pc'[p] \in {"done", "failed"}
         /\ pc[p] = "ci_ai" =>
              \E i \in DOMAIN decisionRecords :
                /\ decisionRecords[i].triggerType = "checkin"
                /\ decisionRecords[i].triggerDataId = local[p].checkinId
         /\ pc'[p] = "done" =>
              \A response \in AIResponses :
                SameOutcome(local'[p].result,
                            IF pc[p] = "ci_ai" THEN CheckinResult(p, response)
                            ELSE FirstFeedbackResult(p, response))]_vars
C20_Witness ==
  \E p \in Procs :
    /\ pc[p] = "done"
    /\ local[p].result # Null
    /\ local[p].result.adjusted
    /\ local[p].result.title = "Keep going"
    /\ \E i \in DOMAIN decisionRecords :
         /\ decisionRecords[i].triggerType = "checkin"
         /\ decisionRecords[i].nutritionChanges = "adjusted"

C22_RecompNeedsWaistDecrease ==
  (calc.fn = "detectRecomp"
     /\ calc.in.rulePack.trendAnalysis.recompThreshold.minWaistDecrease > 0) =>
    LET checkins == calc.in.checkins
        m == calc.in.rulePack.trendAnalysis.recompThreshold.minWaistDecrease
    IN  calc.out <=>
          /\ Len(checkins) >= 2
          /\ \A i \in DOMAIN checkins : checkins[i].waist # NoWaist
          /\ analyzeTrend(checkins, calc.in.rulePack).trend = "stable"
          /\ OldestOf(checkins).waist - NewestOf(checkins).waist >= m

\* C23: the weekNumber values stored on a user's successive check-ins are
\* strictly increasing in submission order, after any sequence of check-ins
\* (stated for one onboarding and check-ins handled one after the other).
Sequential == completed.onboardingStarted <= 1 /\ pc[2] = "idle"
C23_WeekNumbersIncrease ==
  Sequential =>
    \A i, j \in DOMAIN weeklyCheckins :
      i < j => weeklyCheckins[i].weekNumber < weeklyCheckins[j].weekNumber

\* C24: no onboarding or check-in operation modifies or deletes an already
\* persisted check-in, nutrition plan version or decision record: every step
\* leaves the rows of these three tables as they are and at most appends to
\* them; of the plan state only the active-plan pointer is overwritten.
IsPrefix(s, t) == Len(s) <= Len(t) /\ \A i \in DOMAIN s : t[i] = s[i]
C24_AppendOnly ==
  [][/\ IsPrefix(weeklyCheckins, weeklyCheckins')
     /\ IsPrefix(nutritionPlans, nutritionPlans')
     /\ IsPrefix(decisionRecords, decisionRecords')]_vars
C24_Witness ==
  /\ Len(weeklyCheckins) = MaxCheckins
  /\ Len(nutritionPlans) >= 3
  /\ Len(decisionRecords) >= 4
  /\ activePlanPointer # Null
  /\ activePlanPointer.nutritionPlanVersion >= 2
  /\ completed.onboarding = 2

\* C25: the decision record written for a check-in reports nutritionChanges
\* 'adjusted' exactly when that check-in created a new nutrition plan version,
\* and its nutritionPlanId is the plan that is active after the check-in
\* (stated for one onboarding and check-ins handled one after the other).
C25_DecisionMatchesOutcome ==
  \A p \in Procs :
    (Sequential /\ pc[p] = "ci_ai") =>
      LET d == DecisionOf(local[p].checkinId)
      IN  /\ (d.nutritionChanges = "adjusted") <=> (local[p].newPlanId # 0)
          /\ nutritionPlans[d.nutritionPlanId].version = activePlanPointer.nutritionPlanVersion

\* C26: the result returned by processCheckin is self-consistent: the
\* returned adjustment equals the returned newCalories minus the calorie
\* target that was active before the check-in, and newCalories equals the
\* calorie target of the plan that is active after the check-in (stated for
\* one onboarding and check-ins handled one after the other).
C26_ResultSelfConsistent ==
  \A p \in Procs :
    (Sequential /\ pc[p] = "ci_ai") =>
      \A response \in AIResponses :
        LET result == CheckinResult(p, response)
            before == nutritionPlans[local[p].planId].caloriesTarget
        IN  /\ result.adjustment = result.newCalories - before
            /\ \E i \in PlansWithVersion(activePlanPointer.nutritionPlanVersion) :
                 nutritionPlans[i].caloriesTarget = result.newCalories

\* C27: for every input, the adjustment reported by selectCalorieAdjustment
\* equals newCalories minus currentCalories; in particular a reported
\* adjustment of 0 comes with newCalories equal to currentCalories.
C27_AdjustmentMatchesNewCalories ==
  calc.fn = "selectCalorieAdjustment" =>
    calc.out.adjustment = calc.out.newCalories - calc.in.params.userContext.currentCalories

\* C28: if the initial nutrition plan generated during onboarding fails
\* safety validation, submitOnboarding fails and leaves the persisted state
\* unchanged; for a user's first onboarding: no profile is stored, the user is
\* not marked onboardingComplete, and no plan, pointer or decision record
\* exists.
C28_FailedOnboardingLeavesNoTrace ==
  (ob.pc = "failed" /\ ob.error = "validation" /\ completed.onboardingStarted = 1) =>
    /\ onboardingData = Null
    /\ ~onboardingComplete
    /\ nutritionPlans = << >>
    /\ activePlanPointer = Null
    /\ decisionRecords = << >>

\* C29: in every state reached by onboarding and check-in operations run one
\* after the other, the active-plan pointer, when it exists, references a
\* nutrition plan version that exists for the user, and that version is the
\* most recently created plan: the rows the pointer's version selects are
\* the newest row and nothing else.
C29_PointerReferencesNewestPlan ==
  (AllResting /\ pc[2] = "idle" /\ activePlanPointer # Null) =>
    PlansWithVersion(activePlanPointer.nutritionPlanVersion) = {Len(nutritionPlans)}

\* C30: for a weight_loss user whose active plan sits at the 500 kcal deficit
\* cap (caloriesTarget = TDEE - 500), no check-in makes a plan version with a
\* lower caloriesTarget active: a recommended decrease is rejected by
\* validation, the plan a check-in creates from a plan at the cap is not
\* lower than it, and every later version keeps the TDEE and stays at or
\* above TDEE - 500.
AtDeficitCap(plan) == plan.caloriesTarget = plan.guidelines.tdee - 500
DecreaseAtCap(p) ==
  /\ pc[p] \in {"ci_new_plan", "ci_repoint", "ci_decision", "ci_ai"}
  /\ GoalOf(local[p]) = "weight_loss"
  /\ AtDeficitCap(nutritionPlans[local[p].planId])
  /\ WantsAdjustment(AnalysisOf(local[p], nutritionPlans[local[p].planId]))
  /\ AnalysisOf(local[p], nutritionPlans[local[p].planId]).nutritionAdjustment < 0
C30_NoDecreaseBelowCap ==
  /\ \A p \in Procs :
       DecreaseAtCap(p) => (pc[p] \in {"ci_decision", "ci_ai"} /\ local[p].newPlanId = 0)
  /\ \A i \in CheckinPlanIds :
       planOrigin[i].goal = "weight_loss" =>
         LET base == nutritionPlans[planOrigin[i].basedOn]
         IN  /\ nutritionPlans[i].guidelines.tdee = base.guidelines.tdee
             /\ nutritionPlans[i].caloriesTarget >= base.guidelines.tdee - 500
             /\ AtDeficitCap(base) => nutritionPlans[i].caloriesTarget >= base.caloriesTarget
C30_Witness ==
  /\ \E p \in Procs : DecreaseAtCap(p) /\ pc[p] = "ci_ai" /\ local[p].newPlanId = 0
  /\ \E i \in CheckinPlanIds :
       /\ planOrigin[i].goal = "weight_loss"
       /\ AtDeficitCap(nutritionPlans[planOrigin[i].basedOn])
       /\ nutritionPlans[i].caloriesTarget > nutritionPlans[planOrigin[i].basedOn].caloriesTarget

====
